---- MODULE Spec2Model ----
(***************************************************************************)
(* A model of the I18XS class of src/src/index.ts (the modern class,       *)
(* lines 227-1600): its configuration state, the locale table with its     *)
(* lazily filled cache, the message-resolution engine (searchForLocalization,*)
(* searchForLocalizationDirect, formatMessage) and the formatter           *)
(* (formatMessageValue, replaceData).                                      *)
(*                                                                         *)
(* JavaScript strings are sequences of one-character strings; JavaScript   *)
(* values are records [t, v] that carry their typeof tag.                  *)
(***************************************************************************)
EXTENDS Integers, Sequences, FiniteSets, TLC

(***************************************************************************)
(* Bounds of the model.                                                    *)
(***************************************************************************)
\* templates given to replaceData are all strings over TemplateChars of at
\* most this length
MaxTemplateLen == 4
\* counts given as plural data range over 0 .. MaxCount
MaxCount == 3
\* a data mapping has at most this many keys
MaxDataKeys == 2
\* an identifier given to the resolver has at most this many segments
MaxSegments == 3

(***************************************************************************)
(* JavaScript values.                                                      *)
(***************************************************************************)
Undefined == [t |-> "undefined", v |-> <<>>]
Null == [t |-> "null", v |-> <<>>]
StrV(s) == [t |-> "string", v |-> s]
NumV(n) == [t |-> "number", v |-> n]
\* a plain object: a function from its keys (strings) to values
ObjV(f) == [t |-> "object", v |-> f]
\* a data mapping: the sequence of its <<key, value>> pairs in the order
\* Object.keys yields them (keys pairwise distinct)
DataV(pairs) == [t |-> "data", v |-> pairs]
\* the instance itself, as a method's return value
This == [t |-> "this", v |-> <<>>]
\* true and false
BoolV(b) == [t |-> "boolean", v |-> b]
\* a LocalizedValue { id, title }
LocalizedV(id, title) == [t |-> "localized", v |-> [id |-> id, title |-> title]]
\* a call that ended by throwing
Throw(e) == [t |-> "throw", v |-> e]

IsObject(x) == x.t = "object"
IsString(x) == x.t = "string"
\* !x is false
Truthy(x) ==
  CASE x.t = "undefined" -> FALSE
    [] x.t = "null" -> FALSE
    [] x.t = "string" -> x.v # <<>>
    [] x.t = "number" -> x.v # 0
    [] OTHER -> TRUE

\* key in obj, obj[key]
HasKey(obj, key) == key \in DOMAIN obj.v
Get(obj, key) == IF key \in DOMAIN obj.v THEN obj.v[key] ELSE Undefined

\* key in data, data[key]
DataHas(data, key) == \E i \in 1..Len(data.v) : data.v[i][1] = key
DataGet(data, key) ==
  IF DataHas(data, key)
  THEN data.v[CHOOSE i \in 1..Len(data.v) : data.v[i][1] = key][2]
  ELSE Undefined

(***************************************************************************)
(* Strings.                                                                *)
(***************************************************************************)
Digits == <<"0", "1", "2", "3", "4", "5", "6", "7", "8", "9">>
DigitChars == {Digits[i] : i \in 1..10}

\* String(n) for a natural number n
RECURSIVE NumToStr(_)
NumToStr(n) ==
  IF n < 10 THEN <<Digits[n + 1]>>
  ELSE NumToStr(n \div 10) \o <<Digits[(n % 10) + 1]>>

\* String(value), for the values a data mapping holds
ToStr(x) ==
  CASE x.t = "string" -> x.v
    [] x.t = "number" -> NumToStr(x.v)
    [] x.t = "null" -> <<"n", "u", "l", "l">>
    [] OTHER -> <<"u", "n", "d", "e", "f", "i", "n", "e", "d">>

\* identifier.split('.')
RECURSIVE Split(_)
Split(s) ==
  IF \A i \in 1..Len(s) : s[i] # "."
  THEN <<s>>
  ELSE LET p == CHOOSE i \in 1..Len(s) : s[i] = "." /\ \A j \in 1..(i - 1) : s[j] # "."
       IN <<SubSeq(s, 1, p - 1)>> \o Split(SubSeq(s, p + 1, Len(s)))

\* keys.join('.')
RECURSIVE Join(_)
Join(keys) ==
  IF keys = <<>> THEN <<>>
  ELSE IF Len(keys) = 1 THEN keys[1]
  ELSE keys[1] \o <<".">> \o Join(Tail(keys))

\* identifier.includes('.')
IncludesDot(s) == \E i \in 1..Len(s) : s[i] = "."

\* array.includes(x)
Includes(arr, x) == \E i \in 1..Len(arr) : arr[i] = x

(***************************************************************************)
(* replaceData: String.prototype.replace with a global RegExp built from   *)
(* `{${key}}` and a replacement string.                                    *)
(***************************************************************************)
\* new RegExp(`{${key}}`, 'g') throws a SyntaxError ("nothing to repeat")
\* when {key} reads as a braced quantifier, which for a key of word
\* characters is when the key is one or more digits; any other key of word
\* characters gives the literal pattern "{" key "}"
RegExpThrows(key) == key # <<>> /\ \A i \in 1..Len(key) : key[i] \in DigitChars
Pattern(key) == <<"{">> \o key \o <<"}">>

\* GetSubstitution: the replacement text for one match. $$ is a dollar
\* sign, $& the matched text, $` the text before the match, $' the text
\* after it; the pattern has no capture groups, so any other $ is literal
RECURSIVE GetSubstitution(_, _, _, _)
GetSubstitution(replacement, matched, before, after) ==
  IF replacement = <<>> THEN <<>>
  ELSE IF Head(replacement) = "$" /\ Len(replacement) >= 2
       THEN LET c == replacement[2]
                rest == SubSeq(replacement, 3, Len(replacement))
            IN CASE c = "$" -> <<"$">> \o GetSubstitution(rest, matched, before, after)
                 [] c = "&" -> matched \o GetSubstitution(rest, matched, before, after)
                 [] c = "`" -> before \o GetSubstitution(rest, matched, before, after)
                 [] c = "'" -> after \o GetSubstitution(rest, matched, before, after)
                 [] OTHER -> <<"$">> \o GetSubstitution(Tail(replacement), matched, before, after)
       ELSE <<Head(replacement)>> \o GetSubstitution(Tail(replacement), matched, before, after)

\* acc.replace(/pattern/g, replacement): every match, left to right, from
\* position i of str on
RECURSIVE ReplaceFrom(_, _, _, _)
ReplaceFrom(str, i, pattern, replacement) ==
  IF i > Len(str) THEN <<>>
  ELSE IF i + Len(pattern) - 1 <= Len(str) /\ SubSeq(str, i, i + Len(pattern) - 1) = pattern
       THEN GetSubstitution(replacement, pattern, SubSeq(str, 1, i - 1),
                            SubSeq(str, i + Len(pattern), Len(str)))
            \o ReplaceFrom(str, i + Len(pattern), pattern, replacement)
       ELSE <<str[i]>> \o ReplaceFrom(str, i + 1, pattern, replacement)

\* the reduce of replaceData over Object.keys(data), from key number i on;
\* acc is a string value, or Throw once a RegExp failed to compile
RECURSIVE ReplaceReduce(_, _, _)
ReplaceReduce(acc, data, i) ==
  IF i > Len(data.v) THEN StrV(acc)
  ELSE LET key == data.v[i][1]
           value == data.v[i][2]
           replacement == IF value.t # "null" /\ value.t # "undefined"
                          THEN ToStr(value) ELSE <<>>
       IN IF RegExpThrows(key) THEN Throw("SyntaxError")
          ELSE ReplaceReduce(ReplaceFrom(acc, 1, Pattern(key), replacement), data, i + 1)

\* message without its {key} tokens (key a run of characters other than
\* braces) whose key is not in data, from position i on
RECURSIVE StripUnknownTokens(_, _, _)
StripUnknownTokens(message, data, i) ==
  IF i > Len(message) THEN <<>>
  ELSE LET closing == {j \in (i + 1)..Len(message) :
                         /\ message[j] = "}"
                         /\ \A k \in (i + 1)..(j - 1) : message[k] \notin {"{", "}"}}
       IN IF message[i] = "{" /\ closing # {}
             /\ ~DataHas(data, SubSeq(message, i + 1, (CHOOSE j \in closing : TRUE) - 1))
          THEN StripUnknownTokens(message, data, (CHOOSE j \in closing : TRUE) + 1)
          ELSE <<message[i]>> \o StripUnknownTokens(message, data, i + 1)

\* replaceData changed to replace the tokens of keys that data lacks with ''
replaceDataEmptying(message, data) ==
  IF data.t = "undefined" THEN StrV(message)
  ELSE ReplaceReduce(StripUnknownTokens(message, data, 1), data, 1)

replaceData(message, data) ==
  IF data.t = "undefined" THEN StrV(message)
  ELSE ReplaceReduce(message, data, 1)

(***************************************************************************)
(* The resolver.                                                           *)
(***************************************************************************)
\* splitIdentifier
splitIdentifier(identifier) ==
  LET keys == Split(identifier)
  IN [fileName |-> keys[1], keys |-> Tail(keys)]

\* the reduce changed to give undefined when keys remain at a string
RECURSIVE WalkExact(_, _)
WalkExact(acc, keys) ==
  IF keys = <<>> THEN acc
  ELSE IF IsObject(acc) THEN WalkExact(Get(acc, Head(keys)), Tail(keys))
  ELSE Undefined

\* keys.reduce((acc, key) => acc === undefined ? undefined :
\*             typeof acc === 'object' ? acc[key] : acc, localization)
RECURSIVE Walk(_, _)
Walk(acc, keys) ==
  IF keys = <<>> THEN acc
  ELSE IF acc.t = "undefined" THEN Walk(Undefined, Tail(keys))
  ELSE IF IsObject(acc) THEN Walk(Get(acc, Head(keys)), Tail(keys))
  ELSE Walk(acc, Tail(keys))

\* searchForLocalization changed to skip the flat-key attempt
searchForLocalizationNestedOnly(identifier, localization) ==
  Walk(localization, splitIdentifier(identifier).keys)

\* searchForLocalization(identifier, localization): the first segment of
\* the identifier is the file name and is dropped
searchForLocalization(identifier, localization) ==
  LET keys == splitIdentifier(identifier).keys
      flatKey == Join(keys)
  IN IF IsObject(localization) /\ HasKey(localization, flatKey)
     THEN Get(localization, flatKey)
     ELSE Walk(localization, keys)

\* searchForLocalizationDirect(identifier, localization): the whole
\* identifier is the path
searchForLocalizationDirect(identifier, localization) ==
  LET keys == Split(identifier)
  IN IF HasKey(localization, identifier)
     THEN Get(localization, identifier)
     ELSE Walk(localization, keys)

(***************************************************************************)
(* The formatter.                                                          *)
(***************************************************************************)
kZero == <<"z", "e", "r", "o">>
kOne == <<"o", "n", "e">>
kTwo == <<"t", "w", "o">>
kOther == <<"o", "t", "h", "e", "r">>
kCount == <<"c", "o", "u", "n", "t">>

isPluralizationObject(obj) ==
  IF ~IsObject(obj) THEN FALSE
  ELSE HasKey(obj, kOther) \/ HasKey(obj, kZero) \/ HasKey(obj, kOne) \/ HasKey(obj, kTwo)

\* the count formatMessageValue extracts from data
ExtractCount(data) ==
  IF data.t = "undefined" THEN 0
  ELSE IF DataHas(data, kCount) /\ DataGet(data, kCount).t = "number"
       THEN DataGet(data, kCount).v
       ELSE IF Len(data.v) >= 1 /\ data.v[1][1] # <<>> /\ data.v[1][2].t = "number"
            THEN data.v[1][2].v
            ELSE 0

\* the plural form formatMessageValue selects for count
SelectForm(message, count) ==
  LET selectedForm == CASE count = 0 -> Get(message, kZero)
                        [] count = 1 -> Get(message, kOne)
                        [] count = 2 -> Get(message, kTwo)
                        [] OTHER -> Get(message, kOther)
  IN IF ~Truthy(selectedForm) THEN Get(message, kOther) ELSE selectedForm

\* the error fallback changed to ignore the policy flag
ErrorFallbackEmpty(self) == StrV(<<>>)

\* this._showMissingIdentifierMessage ? this._missingIdentifierMessage : ''
ErrorFallback(self) ==
  IF self.showMissingIdentifierMessage THEN StrV(self.missingIdentifierMessage) ELSE StrV(<<>>)

\* formatMessageValue on a plural record, from the selection of the form on
FormatWithCount(self, message, count, data) ==
  LET selectedForm == SelectForm(message, count)
  IN IF ~Truthy(selectedForm) \/ ~IsString(selectedForm)
     THEN ErrorFallback(self)
     ELSE replaceData(selectedForm.v, data)

formatMessageValue(self, message, data) ==
  IF IsObject(message)
  THEN IF ~isPluralizationObject(message) THEN ErrorFallback(self)
       ELSE FormatWithCount(self, message, ExtractCount(data), data)
  ELSE replaceData(message.v, data)

(***************************************************************************)
(* The file provider (fs) and the instance.                                *)
(*                                                                         *)
(* fs.available: readFileSync, existsSync and readdirSync are defined      *)
(*   (Node.js or Bun), otherwise the file system is never touched.         *)
(* fs.locales[dir][locale]: the entries of the directory dir/locale in     *)
(*   readdirSync's order, each [name, json, content]: name is the file's   *)
(*   name without ".json", json says whether the name ends with ".json",   *)
(*   content is the parsed document, or Undefined when JSON.parse throws.  *)
(* fs.features[dir]: the entries of the directory dir in readdirSync's     *)
(*   order, each [name, files], files[locale] the parsed document of       *)
(*   dir/name/locales/locale.json.                                         *)
(*                                                                         *)
(* An instance (self) is the record of the fields of the class. Its        *)
(* localizations field maps a locale to a function from file names to      *)
(* trees; the merged tree of a locale is stored under the name __merged__. *)
(***************************************************************************)
Merged == <<"_", "_", "m", "e", "r", "g", "e", "d", "_", "_">>

\* this._localizations[locale]?.[fileName]
Loc(localizations, locale, fileName) ==
  IF locale \in DOMAIN localizations /\ fileName \in DOMAIN localizations[locale]
  THEN localizations[locale][fileName]
  ELSE Undefined

\* f with f[k] set to x
Put(f, k, x) == (k :> x) @@ f

\* the spread changed to keep the value a key already has
SpreadFirstWins(a, b) == ObjV(a.v @@ b.v)

\* {...a, ...b}
Spread(a, b) == ObjV(b.v @@ a.v)

\* cacheLocalization changed to replace the locale's table by the new entry
cacheLocalizationReplacing(localizations, locale, fileName, localization) ==
  Put(localizations, locale, (fileName :> localization))

\* cacheLocalization
cacheLocalization(localizations, locale, fileName, localization) ==
  LET table == IF locale \in DOMAIN localizations THEN localizations[locale] ELSE <<>>
  IN Put(localizations, locale, Put(table, fileName, localization))

\* existsSync on the directories of the model
ExistsLocalesDir(fs, dir) == dir \in DOMAIN fs.locales
ExistsLocalePath(fs, dir, locale) ==
  dir \in DOMAIN fs.locales /\ locale \in DOMAIN fs.locales[dir]
ExistsFeaturesDir(fs, dir) == dir \in DOMAIN fs.features

\* loadFileContent(`${localesDir}/${locale}/${fileName}.json`)
LoadLocaleFile(fs, dir, locale, fileName) ==
  IF ~fs.available \/ ~ExistsLocalePath(fs, dir, locale) THEN Undefined
  ELSE LET entries == fs.locales[dir][locale]
           hit == {i \in 1..Len(entries) : entries[i].json /\ entries[i].name = fileName}
       IN IF hit = {} THEN Undefined ELSE entries[CHOOSE i \in hit : TRUE].content

\* loadFileContent(`${featuresDir}/${feature}/locales/${locale}.json`)
LoadFeatureFile(fs, dir, feature, locale) ==
  IF ~fs.available \/ ~ExistsFeaturesDir(fs, dir) THEN Undefined
  ELSE LET entries == fs.features[dir]
           hit == {i \in 1..Len(entries) :
                     entries[i].name = feature /\ locale \in DOMAIN entries[i].files}
       IN IF hit = {} THEN Undefined ELSE entries[CHOOSE i \in hit : TRUE].files[locale]

\* the body of preloadFromTraditionalStructure's loop over the files of one
\* locale, from entry j on
RECURSIVE PreloadFiles(_, _, _, _)
PreloadFiles(localizations, locale, entries, j) ==
  IF j > Len(entries) THEN localizations
  ELSE LET e == entries[j]
       IN IF e.json /\ Truthy(e.content)
          THEN LET cached == cacheLocalization(localizations, locale, e.name, e.content)
                   before == IF Merged \in DOMAIN cached[locale]
                             THEN cached[locale][Merged] ELSE ObjV(<<>>)
                   merged == Spread(before, e.content)
               IN PreloadFiles(Put(cached, locale, Put(cached[locale], Merged, merged)),
                               locale, entries, j + 1)
          ELSE PreloadFiles(localizations, locale, entries, j + 1)

\* preloadFromTraditionalStructure, from supported locale number i on
RECURSIVE PreloadLocales(_, _, _, _)
PreloadLocales(self, fs, localizations, i) ==
  IF i > Len(self.supportedLocales) THEN localizations
  ELSE LET locale == self.supportedLocales[i]
       IN IF ~ExistsLocalePath(fs, self.localesDir, locale)
          THEN PreloadLocales(self, fs, localizations, i + 1)
          ELSE LET table == IF locale \in DOMAIN localizations
                            THEN localizations[locale] ELSE <<>>
                   init == IF Merged \in DOMAIN table THEN table
                           ELSE Put(table, Merged, ObjV(<<>>))
               IN PreloadLocales(self, fs,
                    PreloadFiles(Put(localizations, locale, init), locale,
                                 fs.locales[self.localesDir][locale], 1),
                    i + 1)

preloadFromTraditionalStructure(self, fs, localizations) ==
  PreloadLocales(self, fs, localizations, 1)

\* the body of preloadFromFeatureStructure's loop over the supported
\* locales for one feature, from locale number i on
RECURSIVE PreloadFeatureLocales(_, _, _, _)
PreloadFeatureLocales(self, feature, localizations, i) ==
  IF i > Len(self.supportedLocales) THEN localizations
  ELSE LET locale == self.supportedLocales[i]
       IN IF locale \in DOMAIN feature.files /\ Truthy(feature.files[locale])
          THEN LET cached == cacheLocalization(localizations, locale, feature.name,
                                               feature.files[locale])
                   old == IF Merged \in DOMAIN cached[locale]
                          THEN cached[locale][Merged] ELSE ObjV(<<>>)
                   merged == Spread(old, feature.files[locale])
               IN PreloadFeatureLocales(self, feature,
                    Put(cached, locale, Put(cached[locale], Merged, merged)), i + 1)
          ELSE PreloadFeatureLocales(self, feature, localizations, i + 1)

\* preloadFromFeatureStructure, from feature number k on
RECURSIVE PreloadFeatures(_, _, _, _)
PreloadFeatures(self, fs, localizations, k) ==
  IF k > Len(fs.features[self.featuresDir]) THEN localizations
  ELSE PreloadFeatures(self, fs,
         PreloadFeatureLocales(self, fs.features[self.featuresDir][k], localizations, 1),
         k + 1)

preloadFromFeatureStructure(self, fs, localizations) ==
  PreloadFeatures(self, fs, localizations, 1)

\* preloadAllLocalizations: the locale table it leaves
preloadAllLocalizations(self, fs) ==
  IF ~fs.available THEN self.localizations
  ELSE LET traditional ==
             IF self.localesDir # "" /\ ExistsLocalesDir(fs, self.localesDir)
             THEN preloadFromTraditionalStructure(self, fs, self.localizations)
             ELSE self.localizations
       IN IF self.featuresDir # "" /\ ExistsFeaturesDir(fs, self.featuresDir)
          THEN preloadFromFeatureStructure(self, fs, traditional)
          ELSE traditional

\* loadFromTraditionalStructure: [loc: the tree or Undefined,
\* localizations: the locale table afterwards]
loadFromTraditionalStructure(self, fs, fileName) ==
  LET current == LoadLocaleFile(fs, self.localesDir, self.currentLocale, fileName)
      fallback == LoadLocaleFile(fs, self.localesDir, self.fallbackLocale, fileName)
  IN IF Truthy(current)
     THEN [loc |-> current,
           localizations |-> cacheLocalization(self.localizations, self.currentLocale,
                                               fileName, current)]
     ELSE IF Truthy(fallback)
     THEN [loc |-> fallback,
           localizations |-> cacheLocalization(self.localizations, self.fallbackLocale,
                                               fileName, fallback)]
     ELSE [loc |-> Undefined, localizations |-> self.localizations]

\* loadFromFeatureStructure
loadFromFeatureStructure(self, fs, fileName) ==
  LET current == LoadFeatureFile(fs, self.featuresDir, fileName, self.currentLocale)
      fallback == LoadFeatureFile(fs, self.featuresDir, fileName, self.fallbackLocale)
  IN IF Truthy(current)
     THEN [loc |-> current,
           localizations |-> cacheLocalization(self.localizations, self.currentLocale,
                                               fileName, current)]
     ELSE IF Truthy(fallback)
     THEN [loc |-> fallback,
           localizations |-> cacheLocalization(self.localizations, self.fallbackLocale,
                                               fileName, fallback)]
     ELSE [loc |-> Undefined, localizations |-> self.localizations]

\* loadLocalization(fileName)
loadLocalization(self, fs, fileName) ==
  LET L == self.localizations
      kept(loc) == [loc |-> loc, localizations |-> L]
  IN IF self.preloadLocalizations /\ Truthy(Loc(L, self.currentLocale, Merged))
     THEN kept(Loc(L, self.currentLocale, Merged))
     ELSE IF self.preloadLocalizations /\ Truthy(Loc(L, self.fallbackLocale, Merged))
     THEN kept(Loc(L, self.fallbackLocale, Merged))
     ELSE IF Truthy(Loc(L, self.currentLocale, fileName))
     THEN kept(Loc(L, self.currentLocale, fileName))
     ELSE IF Truthy(Loc(L, self.fallbackLocale, fileName))
     THEN kept(Loc(L, self.fallbackLocale, fileName))
     ELSE IF ~fs.available THEN kept(Undefined)
     ELSE LET hasLocalesDir == self.localesDir # ""
              hasFeaturesDir == self.featuresDir # ""
          IN IF hasLocalesDir /\ ~hasFeaturesDir
             THEN loadFromTraditionalStructure(self, fs, fileName)
             ELSE IF hasFeaturesDir /\ ~hasLocalesDir
             THEN loadFromFeatureStructure(self, fs, fileName)
             ELSE IF hasLocalesDir /\ hasFeaturesDir
             THEN LET traditional == loadFromTraditionalStructure(self, fs, fileName)
                  IN IF Truthy(traditional.loc) THEN traditional
                     ELSE loadFromFeatureStructure(self, fs, fileName)
             ELSE kept(Undefined)

\* MissingResult changed to ignore the policy flag
MissingResultIgnoringPolicy(self, identifier) == StrV(identifier)

\* the string formatMessage returns for an identifier it did not find
MissingResult(self, identifier) ==
  IF self.showMissingIdentifierMessage
  THEN StrV(self.missingIdentifierMessage) ELSE StrV(identifier)

\* formatMessage(identifier, data): [ret: the string returned, or Throw;
\* raw: the value the resolver ended with; localizations: the locale table
\* afterwards]
formatMessage(self, fs, identifier, data) ==
  LET L == self.localizations
      mergedLocalization ==
        IF Truthy(Loc(L, self.currentLocale, Merged))
        THEN Loc(L, self.currentLocale, Merged)
        ELSE Loc(L, self.fallbackLocale, Merged)
  IN IF self.preloadLocalizations /\ Truthy(mergedLocalization)
     THEN LET direct == searchForLocalizationDirect(identifier, mergedLocalization)
              identifierWithoutFile == Join(splitIdentifier(identifier).keys)
              message ==
                IF ~Truthy(direct) /\ IncludesDot(identifier) /\ identifierWithoutFile # <<>>
                THEN searchForLocalizationDirect(identifierWithoutFile, mergedLocalization)
                ELSE direct
          IN IF Truthy(message)
             THEN [ret |-> formatMessageValue(self, message, data), raw |-> message,
                   localizations |-> L]
             ELSE [ret |-> MissingResult(self, identifier), raw |-> message,
                   localizations |-> L]
     ELSE LET fileName == splitIdentifier(identifier).fileName
          IN IF fileName = <<>>
             THEN [ret |-> MissingResult(self, identifier), raw |-> Undefined,
                   localizations |-> L]
             ELSE LET loaded == loadLocalization(self, fs, fileName)
                  IN IF ~Truthy(loaded.loc)
                     THEN [ret |-> MissingResult(self, identifier), raw |-> Undefined,
                           localizations |-> loaded.localizations]
                     ELSE LET message == searchForLocalization(identifier, loaded.loc)
                          IN IF ~Truthy(message)
                             THEN [ret |-> MissingResult(self, identifier), raw |-> message,
                                   localizations |-> loaded.localizations]
                             ELSE [ret |-> formatMessageValue(self, message, data),
                                   raw |-> message,
                                   localizations |-> loaded.localizations]

\* hasIdentifier(identifier): [ret: TRUE or FALSE, localizations]
hasIdentifier(self, fs, identifier) ==
  LET fileName == splitIdentifier(identifier).fileName
  IN IF fileName = <<>> THEN [ret |-> FALSE, localizations |-> self.localizations]
     ELSE LET loaded == loadLocalization(self, fs, fileName)
          IN IF ~Truthy(loaded.loc)
             THEN [ret |-> FALSE, localizations |-> loaded.localizations]
             ELSE [ret |-> Truthy(searchForLocalization(identifier, loaded.loc)),
                   localizations |-> loaded.localizations]

\* changeCurrentLocale changed to skip the check of the supported locales
changeCurrentLocaleUnchecked(self, locale) == [ret |-> This, currentLocale |-> locale]

\* changeCurrentLocale changed to return false for a locale it rejects
changeCurrentLocaleReporting(self, locale) ==
  IF ~Includes(self.supportedLocales, locale)
  THEN [ret |-> BoolV(FALSE), currentLocale |-> self.currentLocale]
  ELSE [ret |-> This, currentLocale |-> locale]

\* changeCurrentLocale(locale): [ret: what the method returns,
\* currentLocale: the current locale afterwards]
changeCurrentLocale(self, locale) ==
  IF ~Includes(self.supportedLocales, locale)
  THEN [ret |-> This, currentLocale |-> self.currentLocale]
  ELSE [ret |-> This, currentLocale |-> locale]

\* localizeValue changed to translate the value without the file prefix
localizeValueUnprefixed(self, fs, localeFile, value, data) ==
  IF value.t \in {"null", "undefined"}
  THEN [ret |-> LocalizedV(value, StrV(<<>>)), localizations |-> self.localizations]
  ELSE LET r == formatMessage(self, fs, value.v, data)
       IN [ret |-> IF r.ret.t = "throw" THEN r.ret ELSE LocalizedV(value, r.ret),
           localizations |-> r.localizations]

\* localizeValue(localeFile, value, data): [ret: the LocalizedValue returned,
\* or Throw when formatMessage throws; localizations: the locale table
\* afterwards]
localizeValue(self, fs, localeFile, value, data) ==
  IF value.t \in {"null", "undefined"}
  THEN [ret |-> LocalizedV(value, IF self.showMissingIdentifierMessage
                                  THEN StrV(self.missingIdentifierMessage)
                                  ELSE StrV(<<>>)),
        localizations |-> self.localizations]
  ELSE LET r == formatMessage(self, fs, localeFile \o <<".">> \o value.v, data)
       IN [ret |-> IF r.ret.t = "throw" THEN r.ret ELSE LocalizedV(value, r.ret),
           localizations |-> r.localizations]

\* isCurrentLocale changed to compare with the current locale
isCurrentLocaleComparing(self, locale) == locale = self.currentLocale

\* isCurrentLocale(locale)
isCurrentLocale(self, locale) == Includes(self.supportedLocales, locale)

\* isCurrentLocaleRTL changed to look at the fallback locale
isCurrentLocaleRTLOfFallback(self) == Includes(self.rtlLocales, self.fallbackLocale)

\* get isCurrentLocaleRTL
isCurrentLocaleRTL(self) == Includes(self.rtlLocales, self.currentLocale)

\* get isCurrentLocaleLTR
isCurrentLocaleLTR(self) == ~Includes(self.rtlLocales, self.currentLocale)

\* get textDirection
textDirection(self) == IF isCurrentLocaleRTL(self) THEN "rtl" ELSE "ltr"

(***************************************************************************)
(* findMissingKeys with collectKeys and hasKey.                            *)
(***************************************************************************)
\* the UTF-16 code unit of the characters key paths are written with
CodeUnit(c) ==
  CASE c = "." -> 46
    [] c = "H" -> 72
    [] c = "S" -> 83
    [] c = "W" -> 87
    [] c = "X" -> 88
    [] c = "a" -> 97
    [] c = "b" -> 98
    [] c = "c" -> 99
    [] OTHER -> 65

\* a < b as Array.prototype.sort() without a comparator orders strings
StringBefore(a, b) ==
  \E i \in 1..(Len(a) + 1) :
    /\ i <= Len(b)
    /\ \A j \in 1..(i - 1) : a[j] = b[j]
    /\ i = Len(a) + 1 \/ CodeUnit(a[i]) < CodeUnit(b[i])

\* array.sort() of the strings of a set
RECURSIVE Sort(_)
Sort(S) ==
  IF S = {} THEN <<>>
  ELSE LET first == CHOOSE x \in S : \A y \in S \ {x} : StringBefore(x, y)
       IN <<first>> \o Sort(S \ {first})

\* collectKeys(obj, prefix, keys): the keys it adds
RECURSIVE collectKeys(_, _)
collectKeys(obj, prefix) ==
  IF IsString(obj) THEN (IF prefix # <<>> THEN {prefix} ELSE {})
  ELSE IF IsObject(obj)
       THEN IF \E k \in {kZero, kOne, kTwo, kOther} : HasKey(obj, k)
            THEN (IF prefix # <<>> THEN {prefix} ELSE {})
            ELSE UNION {collectKeys(obj.v[key],
                                    IF prefix # <<>> THEN prefix \o <<".">> \o key ELSE key)
                          : key \in DOMAIN obj.v}
       ELSE {}

\* the loop of hasKey over the segments of the key
RECURSIVE HasKeyWalk(_, _)
HasKeyWalk(current, keys) ==
  IF keys = <<>> THEN current.t # "undefined"
  ELSE IF IsObject(current) /\ HasKey(current, Head(keys))
       THEN HasKeyWalk(current.v[Head(keys)], Tail(keys))
       ELSE FALSE

\* hasKey(key, obj)
hasKey(key, obj) ==
  IF HasKey(obj, key) THEN TRUE ELSE HasKeyWalk(obj, Split(key))

\* Object.values(localeData)
FileDatas(localeData) == {localeData[name] : name \in DOMAIN localeData}

\* the keys findMissingKeys collects from one locale
CollectedKeys(self, locale) ==
  IF locale \notin DOMAIN self.localizations THEN {}
  ELSE LET localeData == self.localizations[locale]
       IN IF Merged \in DOMAIN localeData
          THEN collectKeys(localeData[Merged], <<>>)
          ELSE UNION {collectKeys(fileData, <<>>) : fileData \in FileDatas(localeData)}

\* the keys findMissingKeys pushes to missingKeys[locale]
MissingIn(self, locale, allKeys) ==
  IF locale \notin DOMAIN self.localizations THEN allKeys
  ELSE LET localeData == self.localizations[locale]
       IN IF Merged \in DOMAIN localeData
          THEN {key \in allKeys : ~hasKey(key, localeData[Merged])}
          ELSE {key \in allKeys :
                  ~\E fileData \in FileDatas(localeData) : hasKey(key, fileData)}

\* findMissingKeys(): the record it returns, as a function from locales to
\* sorted lists
findMissingKeys(self) ==
  LET locales == {self.supportedLocales[i] : i \in 1..Len(self.supportedLocales)}
      allKeys == UNION {CollectedKeys(self, locale) : locale \in locales}
      result == [locale \in {l \in locales : MissingIn(self, l, allKeys) # {}} |->
                   Sort(MissingIn(self, locale, allKeys))]
  IN [t |-> "record", v |-> result]

(***************************************************************************)
(* configure and the constructor.                                          *)
(*                                                                         *)
(* The options of a call are a record holding the options that were given; *)
(* an option that is not among its fields takes its default. showLogs only *)
(* switches logging on and is left out.                                    *)
(***************************************************************************)
Opt(options, name, default) == IF name \in DOMAIN options THEN options[name] ELSE default

DefaultRtlLocales == <<"ar", "he", "fa", "ur", "ps", "ckb", "syr", "dv", "ug">>
DefaultMissingIdentifierMessage ==
  <<"M", "i", "s", "s", "i", "n", "g", "_", "L", "o", "c", "a", "l", "i", "z", "a", "t",
    "i", "o", "n", "_", "I", "d", "e", "n", "t", "i", "f", "i", "e", "r">>
\* `${process.cwd()}/src/locales`
DefaultLocalesDir == "cwd/src/locales"

\* configure changed to reset localesDir and featuresDir as well
configureResettingDirs(localesDir, featuresDir, fs, options) ==
  LET assigned ==
        [localesDir |-> Opt(options, "localesDir", ""),
         featuresDir |-> Opt(options, "featuresDir", ""),
         supportedLocales |-> Opt(options, "supportedLocales", <<"en">>),
         currentLocale |-> Opt(options, "currentLocale", "en"),
         fallbackLocale |-> Opt(options, "fallbackLocale", "en"),
         showMissingIdentifierMessage |-> Opt(options, "showMissingIdentifierMessage", FALSE),
         missingIdentifierMessage |->
           Opt(options, "missingIdentifierMessage", DefaultMissingIdentifierMessage),
         rtlLocales |-> Opt(options, "rtlLocales", DefaultRtlLocales),
         localizations |-> Opt(options, "localizations", <<>>),
         preloadLocalizations |-> Opt(options, "preloadLocalizations", TRUE)]
  IN IF assigned.preloadLocalizations
     THEN [assigned EXCEPT !.localizations = preloadAllLocalizations(assigned, fs)]
     ELSE assigned

\* configure(options) on an instance whose directories are localesDir and
\* featuresDir: the instance afterwards
configure(localesDir, featuresDir, fs, options) ==
  LET assigned ==
        [localesDir |-> Opt(options, "localesDir", localesDir),
         featuresDir |-> Opt(options, "featuresDir", featuresDir),
         supportedLocales |-> Opt(options, "supportedLocales", <<"en">>),
         currentLocale |-> Opt(options, "currentLocale", "en"),
         fallbackLocale |-> Opt(options, "fallbackLocale", "en"),
         showMissingIdentifierMessage |-> Opt(options, "showMissingIdentifierMessage", FALSE),
         missingIdentifierMessage |->
           Opt(options, "missingIdentifierMessage", DefaultMissingIdentifierMessage),
         rtlLocales |-> Opt(options, "rtlLocales", DefaultRtlLocales),
         localizations |-> Opt(options, "localizations", <<>>),
         preloadLocalizations |-> Opt(options, "preloadLocalizations", TRUE)]
  IN IF assigned.preloadLocalizations
     THEN [assigned EXCEPT !.localizations = preloadAllLocalizations(assigned, fs)]
     ELSE assigned

\* new I18XS(options): localesDir defaults to the working directory's
\* src/locales under Node.js and to '' elsewhere, featuresDir to ''
constructor(fs, options) ==
  configure(IF fs.available THEN DefaultLocalesDir ELSE "", "", fs, options)

(***************************************************************************)
(* The state: the fields of one I18XS instance, the file provider it       *)
(* reads, and the last call made on it with what it returned.              *)
(***************************************************************************)
VARIABLES supportedLocales, currentLocale, fallbackLocale,
          showMissingIdentifierMessage, missingIdentifierMessage, rtlLocales,
          localesDir, featuresDir, localizations, preloadLocalizations, fs, call

config == <<supportedLocales, currentLocale, fallbackLocale, showMissingIdentifierMessage,
            missingIdentifierMessage, rtlLocales, localesDir, featuresDir,
            preloadLocalizations>>
vars == <<config, localizations, fs, call>>

\* the instance as the record the operators above take
Self ==
  [localesDir |-> localesDir, featuresDir |-> featuresDir,
   supportedLocales |-> supportedLocales, currentLocale |-> currentLocale,
   fallbackLocale |-> fallbackLocale,
   showMissingIdentifierMessage |-> showMissingIdentifierMessage,
   missingIdentifierMessage |-> missingIdentifierMessage, rtlLocales |-> rtlLocales,
   localizations |-> localizations, preloadLocalizations |-> preloadLocalizations]

\* the fields are those of the instance next
Becomes(next) ==
  /\ localesDir' = next.localesDir
  /\ featuresDir' = next.featuresDir
  /\ supportedLocales' = next.supportedLocales
  /\ currentLocale' = next.currentLocale
  /\ fallbackLocale' = next.fallbackLocale
  /\ showMissingIdentifierMessage' = next.showMissingIdentifierMessage
  /\ missingIdentifierMessage' = next.missingIdentifierMessage
  /\ rtlLocales' = next.rtlLocales
  /\ localizations' = next.localizations
  /\ preloadLocalizations' = next.preloadLocalizations

\* the record of a call: op names the method, the other fields hold its
\* arguments (those it has), done says whether it has returned, ret what it
\* returned (Throw when it threw) and raw the value formatMessage's lookups
\* ended with
NoCall ==
  [op |-> "new", identifier |-> <<>>, data |-> Undefined, locale |-> "",
   message |-> Undefined, localization |-> Undefined, options |-> <<>>,
   localeFile |-> <<>>, value |-> Undefined,
   ret |-> Undefined, raw |-> Undefined, done |-> TRUE]

(***************************************************************************)
(* The inputs of the model.                                                *)
(***************************************************************************)
\* file and key names, messages
sG == <<"g">>
sC == <<"c">>
sF == <<"f">>
sH == <<"H">>
sW == <<"W">>
sI == <<"I">>
sE == <<"E">>
sS == <<"S">>
sX == <<"X">>
sN == <<"n">>
sAB == <<"a", ".", "b">>
Dot(a, b) == a \o <<".">> \o b

\* the documents of the file provider: locales/en/g.json, locales/en/c.json,
\* locales/ar/g.json and features/f/locales/en.json
EnG ==
  ObjV((sH :> StrV(<<"H", "i">>))
       @@ (sW :> StrV(<<"W", "{", "n", "}">>))
       @@ (sI :> ObjV((kZero :> StrV(<<"Z">>)) @@ (kOne :> StrV(<<"O">>))
                      @@ (kOther :> StrV(<<"{", "n", "}", "I">>))))
       @@ (sAB :> StrV(<<"F">>))
       @@ (<<"a">> :> ObjV(<<"b">> :> StrV(<<"N">>)))
       @@ (sE :> StrV(<<>>)))
EnC == ObjV((sS :> StrV(<<"S">>)) @@ (sH :> StrV(<<"H", "c">>)))
ArG == ObjV((sH :> StrV(<<"h", "a">>)) @@ (sW :> StrV(<<"w", "{", "n", "}">>)))
EnF == ObjV((sX :> StrV(<<"f", "x">>)) @@ (sH :> StrV(<<"f", "h">>)))

File(name, content) == [name |-> name, json |-> TRUE, content |-> content]

NodeFs ==
  [available |-> TRUE,
   locales |-> ("/locales" :> (("en" :> <<File(sG, EnG),
                                          [name |-> <<"R">>, json |-> FALSE,
                                           content |-> Undefined],
                                          File(sC, EnC)>>)
                               @@ ("ar" :> <<File(sG, ArG),
                                             File(sC, Undefined)>>))),
   features |-> ("/features" :> <<[name |-> sF, files |-> ("en" :> EnF)]>>)]

\* no file system: a browser or React Native
BrowserFs == [available |-> FALSE, locales |-> <<>>, features |-> <<>>]

FileProviders == {NodeFs, BrowserFs}

InMemory == ("en" :> (sG :> EnG)) @@ ("ar" :> (sG :> ArG))

\* a tree given in memory under a name no file of locales/en has
InMemoryF == ("en" :> (sF :> EnF))

ShortMessage == <<"?">>

\* the options given to the constructor and to configure
OptionSets ==
  { [supportedLocales |-> <<"en", "ar">>],
    [supportedLocales |-> <<"en", "ar">>, localesDir |-> "/locales"],
    [supportedLocales |-> <<"en", "ar">>, localesDir |-> "/locales",
     currentLocale |-> "ar", showMissingIdentifierMessage |-> TRUE],
    [supportedLocales |-> <<"en", "ar">>, localesDir |-> "/locales",
     preloadLocalizations |-> FALSE],
    [supportedLocales |-> <<"en", "ar">>, localesDir |-> "/locales",
     featuresDir |-> "/features", currentLocale |-> "ar", preloadLocalizations |-> FALSE,
     showMissingIdentifierMessage |-> TRUE, missingIdentifierMessage |-> ShortMessage],
    [supportedLocales |-> <<"en", "ar">>, localizations |-> InMemory,
     rtlLocales |-> <<"ar">>],
    [featuresDir |-> "/features", localesDir |-> ""],
    [supportedLocales |-> <<"en", "ar">>, localesDir |-> "/locales",
     featuresDir |-> "/features"],
    [supportedLocales |-> <<"en", "ar">>, localesDir |-> "/locales",
     localizations |-> InMemoryF],
    [supportedLocales |-> <<"en", "ar">>, localesDir |-> "/locales",
     currentLocale |-> "he", rtlLocales |-> <<"ar">>] }

LocaleCodes == {"en", "ar", "xx"}

Identifiers ==
  { sH, Dot(sG, sH), Dot(sG, sW), Dot(sG, sI), Dot(sG, sAB), sAB, Dot(sG, sE),
    Dot(sG, sX), sX, <<>>, sG, Dot(sC, sS), Dot(sF, sX), Dot(Dot(sG, sH), sX),
    Dot(sE, sH) }

Datas ==
  { Undefined, DataV(<< <<sN, NumV(2)>> >>),
    DataV(<< <<(<<"1">>), NumV(1)>>, <<sN, StrV(<<"J">>)>> >>) }

(***************************************************************************)
(* The instance and the calls made on it.                                  *)
(***************************************************************************)
Init ==
  /\ fs \in FileProviders
  /\ \E options \in OptionSets :
       LET self == constructor(fs, options)
       IN /\ localesDir = self.localesDir
          /\ featuresDir = self.featuresDir
          /\ supportedLocales = self.supportedLocales
          /\ currentLocale = self.currentLocale
          /\ fallbackLocale = self.fallbackLocale
          /\ showMissingIdentifierMessage = self.showMissingIdentifierMessage
          /\ missingIdentifierMessage = self.missingIdentifierMessage
          /\ rtlLocales = self.rtlLocales
          /\ localizations = self.localizations
          /\ preloadLocalizations = self.preloadLocalizations
  /\ call = NoCall

Configure(options) ==
  /\ Becomes(configure(localesDir, featuresDir, fs, options))
  /\ call' = [NoCall EXCEPT !.op = "configure", !.options = options, !.ret = This]
  /\ UNCHANGED fs

ChangeCurrentLocale(locale) ==
  LET r == changeCurrentLocale(Self, locale)
  IN /\ currentLocale' = r.currentLocale
     /\ call' = [NoCall EXCEPT !.op = "changeCurrentLocale", !.locale = locale,
                               !.ret = r.ret]
     /\ UNCHANGED <<supportedLocales, fallbackLocale, showMissingIdentifierMessage,
                    missingIdentifierMessage, rtlLocales, localesDir, featuresDir,
                    preloadLocalizations, localizations, fs>>

\* t(identifier, data), which is formatMessage(identifier, data)
T(identifier, data) ==
  LET r == formatMessage(Self, fs, identifier, data)
  IN /\ localizations' = r.localizations
     /\ call' = [NoCall EXCEPT !.op = "t", !.identifier = identifier, !.data = data,
                               !.ret = r.ret, !.raw = r.raw]
     /\ UNCHANGED <<config, fs>>

HasIdentifier(identifier) ==
  LET r == hasIdentifier(Self, fs, identifier)
  IN /\ localizations' = r.localizations
     /\ call' = [NoCall EXCEPT !.op = "hasIdentifier", !.identifier = identifier,
                               !.ret = BoolV(r.ret)]
     /\ UNCHANGED <<config, fs>>

IsCurrentLocale(locale) ==
  /\ call' = [NoCall EXCEPT !.op = "isCurrentLocale", !.locale = locale,
                            !.ret = BoolV(isCurrentLocale(Self, locale))]
  /\ UNCHANGED <<config, localizations, fs>>

\* the values localizeValue is given
LocalizeValues == {Null, Undefined, StrV(sH), StrV(sW), StrV(sX)}

LocalizeValue(localeFile, value, data) ==
  LET r == localizeValue(Self, fs, localeFile, value, data)
  IN /\ localizations' = r.localizations
     /\ call' = [NoCall EXCEPT !.op = "localizeValue", !.localeFile = localeFile,
                               !.value = value, !.data = data, !.ret = r.ret]
     /\ UNCHANGED <<config, fs>>

Next ==
  \/ \E options \in OptionSets : Configure(options)
  \/ \E locale \in LocaleCodes : ChangeCurrentLocale(locale)
  \/ \E identifier \in Identifiers, data \in Datas : T(identifier, data)
  \/ \E identifier \in Identifiers : HasIdentifier(identifier)
  \/ \E locale \in LocaleCodes : IsCurrentLocale(locale)
  \/ \E value \in LocalizeValues, data \in Datas : LocalizeValue(sG, value, data)

Spec == Init /\ [][Next]_vars

(***************************************************************************)
(* The formatter on its own: replaceData and formatMessageValue applied to *)
(* every message and data mapping of a bounded family.                     *)
(***************************************************************************)
SeqsUpTo(S, n) == UNION {[1..k -> S] : k \in 0..n}

\* Object.keys lists the keys that are array indices first, in ascending
\* order, and then the other keys in the order they were added
IsIndexKey(key) ==
  /\ key # <<>>
  /\ \A i \in 1..Len(key) : key[i] \in DigitChars
  /\ (Len(key) > 1 => key[1] # "0")
IsKeyOrder(pairs) ==
  /\ \A i, j \in 1..Len(pairs) : i # j => pairs[i][1] # pairs[j][1]
  /\ \A i, j \in 1..Len(pairs) :
       (i < j /\ IsIndexKey(pairs[j][1]))
         => (IsIndexKey(pairs[i][1]) /\ Len(pairs[i][1]) <= Len(pairs[j][1]))

\* the data mappings with keys among keys and values among values
DatasOver(keys, values) ==
  {Undefined} \cup
  {DataV(pairs) : pairs \in {q \in SeqsUpTo(keys \X values, MaxDataKeys) : IsKeyOrder(q)}}

TemplateChars == {"{", "a", "}"}
Templates == SeqsUpTo(TemplateChars, MaxTemplateLen)
ReplaceKeys == {<<"a">>, <<"b">>, <<"1">>}
ReplaceValues ==
  {StrV(<<"$", "&">>), StrV(<<"{", "b", "}">>), NumV(10), Null, Undefined}
ReplaceDatas == DatasOver(ReplaceKeys, ReplaceValues)

\* plural records: each form absent, empty or a template
FormChoices(key, templates) ==
  {<<>>} \cup {key :> StrV(template) : template \in templates}
PluralRecords ==
  {ObjV(z @@ o @@ w @@ r) :
     z \in FormChoices(kZero, {<<>>, <<"Z">>, <<"{", "n", "}", "Z">>}),
     o \in FormChoices(kOne, {<<>>, <<"O">>}),
     w \in FormChoices(kTwo, {<<>>, <<"T">>}),
     r \in FormChoices(kOther, {<<>>, <<"{", "n", "}", "R">>})}
\* records with a form that is no string (a nested object), and an object
\* that has none of the plural keys
MalformedRecords ==
  { ObjV(kOther :> ObjV(<<>>)),
    ObjV((kZero :> ObjV(<<>>)) @@ (kOther :> StrV(<<"R">>))),
    ObjV(sN :> StrV(<<"x">>)) }
\* what formatMessageValue is given: plural records (the one without any
\* form is an object that is no plural record) and plain messages
Messages == PluralRecords \cup MalformedRecords \cup {StrV(<<"W", "{", "n", "}">>)}
PluralKeys == {kCount, sN, <<>>}
PluralValues == {NumV(c) : c \in 0..MaxCount} \cup {StrV(<<"J">>)}
PluralDatas == DatasOver(PluralKeys, PluralValues)

InitInstance(options) ==
  /\ fs = BrowserFs
  /\ LET self == constructor(fs, options)
     IN /\ localesDir = self.localesDir
        /\ featuresDir = self.featuresDir
        /\ supportedLocales = self.supportedLocales
        /\ currentLocale = self.currentLocale
        /\ fallbackLocale = self.fallbackLocale
        /\ showMissingIdentifierMessage = self.showMissingIdentifierMessage
        /\ missingIdentifierMessage = self.missingIdentifierMessage
        /\ rtlLocales = self.rtlLocales
        /\ localizations = self.localizations
        /\ preloadLocalizations = self.preloadLocalizations

InitFormat ==
  /\ \E show \in BOOLEAN : InitInstance([showMissingIdentifierMessage |-> show])
  /\ \/ \E message \in Templates, data \in ReplaceDatas :
          call = [NoCall EXCEPT !.op = "replaceData", !.message = StrV(message),
                                !.data = data, !.done = FALSE]
     \/ \E message \in Messages, data \in PluralDatas :
          call = [NoCall EXCEPT !.op = "formatMessageValue", !.message = message,
                                !.data = data, !.done = FALSE]

ReplaceDataCall ==
  /\ call.op = "replaceData" /\ ~call.done
  /\ call' = [call EXCEPT !.done = TRUE, !.ret = replaceData(call.message.v, call.data)]
  /\ UNCHANGED <<config, localizations, fs>>

FormatMessageValueCall ==
  /\ call.op = "formatMessageValue" /\ ~call.done
  /\ call' = [call EXCEPT !.done = TRUE,
                          !.ret = formatMessageValue(Self, call.message, call.data)]
  /\ UNCHANGED <<config, localizations, fs>>

NextFormat == ReplaceDataCall \/ FormatMessageValueCall

SpecFormat == InitFormat /\ [][NextFormat]_vars

(***************************************************************************)
(* The resolver on its own: searchForLocalization and                      *)
(* searchForLocalizationDirect applied to every identifier and tree of a   *)
(* bounded family. The trees have the root keys a, b and the flat key a.b; *)
(* the keys a and b hold a string, or an object of the same kind.          *)
(***************************************************************************)
LeafValues == {StrV(<<"X">>), StrV(<<"Y">>), StrV(<<>>)}
ObjectsOver(keys, values) ==
  {ObjV(f) : f \in UNION {[d -> values] : d \in SUBSET keys}}
InnerTrees == ObjectsOver({<<"a">>, <<"b">>}, {StrV(<<"X">>), StrV(<<"Y">>)})
Trees ==
  {ObjV(f @@ g) :
     f \in UNION {[d -> LeafValues \cup InnerTrees] : d \in SUBSET {<<"a">>, <<"b">>}},
     g \in UNION {[d -> LeafValues] : d \in SUBSET {sAB}}}

\* the identifiers of one to MaxSegments segments a or b
SearchIdentifiers ==
  {Join(segments) : segments \in (SeqsUpTo({<<"a">>, <<"b">>}, MaxSegments) \ {<<>>})}

InitSearch ==
  /\ InitInstance(<<>>)
  /\ \E identifier \in SearchIdentifiers, localization \in Trees,
        op \in {"searchForLocalization", "searchForLocalizationDirect"} :
       call = [NoCall EXCEPT !.op = op, !.identifier = identifier,
                             !.localization = localization, !.done = FALSE]

SearchForLocalizationCall ==
  /\ call.op = "searchForLocalization" /\ ~call.done
  /\ call' = [call EXCEPT !.done = TRUE,
                          !.ret = searchForLocalization(call.identifier, call.localization)]
  /\ UNCHANGED <<config, localizations, fs>>

SearchForLocalizationDirectCall ==
  /\ call.op = "searchForLocalizationDirect" /\ ~call.done
  /\ call' = [call EXCEPT !.done = TRUE,
                          !.ret = searchForLocalizationDirect(call.identifier,
                                                              call.localization)]
  /\ UNCHANGED <<config, localizations, fs>>

NextSearch == SearchForLocalizationCall \/ SearchForLocalizationDirectCall

SpecSearch == InitSearch /\ [][NextSearch]_vars

(***************************************************************************)
(* findMissingKeys on its own: an instance for the locales en and ar whose *)
(* trees come from a bounded family, given in memory (one tree per file    *)
(* name) or read from locales/<locale>/g.json at construction (a merged    *)
(* tree per locale); ar may have no data at all. The trees have the root   *)
(* keys a, b and a.b; a holds a string, a pluralization record or a        *)
(* subtree, a.b a string or a subtree.                                     *)
(***************************************************************************)
KeyTrees ==
  {ObjV(f @@ g @@ h) :
     f \in UNION {[d -> {StrV(<<"X">>), ObjV(kOther :> StrV(<<"R">>)),
                         ObjV(<<"b">> :> StrV(<<"X">>)),
                         ObjV((<<"a">> :> StrV(<<"X">>)) @@ (<<"b">> :> StrV(<<"Y">>)))}]
                    : d \in SUBSET {<<"a">>}},
     g \in UNION {[d -> {StrV(<<"X">>)}] : d \in SUBSET {<<"b">>}},
     h \in UNION {[d -> {StrV(<<"X">>), ObjV(<<"b">> :> StrV(<<"X">>))}]
                    : d \in SUBSET {sAB}}}

\* the fields are those of the instance self
IsInstance(self) ==
  /\ localesDir = self.localesDir
  /\ featuresDir = self.featuresDir
  /\ supportedLocales = self.supportedLocales
  /\ currentLocale = self.currentLocale
  /\ fallbackLocale = self.fallbackLocale
  /\ showMissingIdentifierMessage = self.showMissingIdentifierMessage
  /\ missingIdentifierMessage = self.missingIdentifierMessage
  /\ rtlLocales = self.rtlLocales
  /\ localizations = self.localizations
  /\ preloadLocalizations = self.preloadLocalizations

\* the file provider holding tree en as locales/en/g.json and tree ar, when
\* there is one, as locales/ar/g.json
KeysFs(en, ar) ==
  [available |-> TRUE,
   locales |-> ("/locales" :> (("en" :> <<File(sG, en)>>)
                               @@ (IF ar = Undefined THEN <<>>
                                   ELSE ("ar" :> <<File(sG, ar)>>)))),
   features |-> <<>>]

\* the same trees as the localizations option
KeysInMemory(en, ar) ==
  ("en" :> (sG :> en)) @@ (IF ar = Undefined THEN <<>> ELSE ("ar" :> (sG :> ar)))

InitKeys ==
  /\ \E en \in KeyTrees, ar \in KeyTrees \cup {Undefined} :
       \/ /\ fs = KeysFs(en, ar)
          /\ IsInstance(constructor(fs, [supportedLocales |-> <<"en", "ar">>,
                                         localesDir |-> "/locales"]))
       \/ /\ fs = BrowserFs
          /\ IsInstance(constructor(fs, [supportedLocales |-> <<"en", "ar">>,
                                         localizations |-> KeysInMemory(en, ar)]))
  /\ call = [NoCall EXCEPT !.op = "findMissingKeys", !.done = FALSE]

FindMissingKeysCall ==
  /\ call.op = "findMissingKeys" /\ ~call.done
  /\ call' = [call EXCEPT !.done = TRUE, !.ret = findMissingKeys(Self)]
  /\ UNCHANGED <<config, localizations, fs>>

NextKeys == FindMissingKeysCall

SpecKeys == InitKeys /\ [][NextKeys]_vars

(***************************************************************************)
(* Helpers of the properties below.                                        *)
(***************************************************************************)
\* the number of places at which pattern occurs in str
Occurrences(pattern, str) ==
  Cardinality({i \in 1..Len(str) :
                 i + Len(pattern) - 1 <= Len(str)
                 /\ SubSeq(str, i, i + Len(pattern) - 1) = pattern})

\* the part of an identifier after its first dot (nothing when it has none)
AfterNamespace(identifier) ==
  IF ~IncludesDot(identifier) THEN <<>>
  ELSE LET p == CHOOSE i \in 1..Len(identifier) :
                  identifier[i] = "." /\ \A j \in 1..(i - 1) : identifier[j] # "."
       IN SubSeq(identifier, p + 1, Len(identifier))

\* substitution as one pass over the template: each {key} token whose key is
\* in data becomes '' for null and undefined and String(data[key]) otherwise,
\* every other character is copied
RECURSIVE SubstituteTokens(_, _, _)
SubstituteTokens(template, data, i) ==
  IF i > Len(template) THEN <<>>
  ELSE LET hit == {k \in 1..Len(data.v) :
                     /\ i + Len(Pattern(data.v[k][1])) - 1 <= Len(template)
                     /\ SubSeq(template, i, i + Len(Pattern(data.v[k][1])) - 1)
                          = Pattern(data.v[k][1])}
       IN IF hit = {} THEN <<template[i]>> \o SubstituteTokens(template, data, i + 1)
          ELSE LET k == CHOOSE k \in hit : TRUE
                   value == data.v[k][2]
               IN (IF value.t \in {"null", "undefined"} THEN <<>> ELSE ToStr(value))
                  \o SubstituteTokens(template, data, i + Len(Pattern(data.v[k][1])))

\* the data mapping {count: c}
IsCountData(data) ==
  data.t = "data" /\ Len(data.v) = 1 /\ data.v[1][1] = kCount /\ data.v[1][2].t = "number"

HasAllForms(P) ==
  IsObject(P) /\ HasKey(P, kZero) /\ HasKey(P, kOne) /\ HasKey(P, kTwo) /\ HasKey(P, kOther)

\* the key of the plural form that belongs to a count
FormKey(count) ==
  CASE count = 0 -> kZero [] count = 1 -> kOne [] count = 2 -> kTwo [] OTHER -> kOther

\* the count the specification describes: data.count when it is a number,
\* otherwise the value of the first key when it is a number, otherwise 0
DescribedCount(data) ==
  IF data.t # "data" THEN 0
  ELSE IF DataHas(data, kCount) /\ DataGet(data, kCount).t = "number"
       THEN DataGet(data, kCount).v
       ELSE IF Len(data.v) >= 1 /\ data.v[1][2].t = "number" THEN data.v[1][2].v ELSE 0

Returned(op) == call.op = op /\ call.done

(***************************************************************************)
(* C1. When t(identifier) finds no value for the identifier (there is no   *)
(* file name, no tree, or every lookup ended undefined), it returns the    *)
(* identifier itself if showMissingIdentifierMessage is off and the        *)
(* configured missingIdentifierMessage if it is on.                        *)
(***************************************************************************)
C1_MissingIdentifier ==
  (Returned("t") /\ call.raw = Undefined)
    => call.ret = IF showMissingIdentifierMessage
                  THEN StrV(missingIdentifierMessage) ELSE StrV(call.identifier)

C1_Witness ==
  /\ Returned("t") /\ call.raw = Undefined
  /\ call.identifier = Dot(sG, sX)
  /\ Truthy(Loc(localizations, currentLocale, Merged))
  /\ showMissingIdentifierMessage
  /\ call.ret = StrV(DefaultMissingIdentifierMessage)

(***************************************************************************)
(* C2. Flat-key precedence: when the path of the identifier (after the     *)
(* file-name segment for searchForLocalization, the whole identifier for   *)
(* searchForLocalizationDirect) is itself a key at the root of the tree,   *)
(* the lookup returns that key's value, also when the nested path of the   *)
(* same segments exists.                                                   *)
(***************************************************************************)
C2_FlatKeyPrecedence ==
  /\ (Returned("searchForLocalization")
      /\ HasKey(call.localization, AfterNamespace(call.identifier)))
       => call.ret = call.localization.v[AfterNamespace(call.identifier)]
  /\ (Returned("searchForLocalizationDirect") /\ HasKey(call.localization, call.identifier))
       => call.ret = call.localization.v[call.identifier]

C2_Witness ==
  /\ Returned("searchForLocalization")
  /\ call.identifier = Dot(<<"b">>, sAB)
  /\ HasKey(call.localization, sAB)
  /\ call.localization.v[sAB] = StrV(<<"X">>)
  /\ Walk(call.localization, <<(<<"a">>), (<<"b">>)>>) = StrV(<<"Y">>)
  /\ call.ret = StrV(<<"X">>)

(***************************************************************************)
(* C3 (as stated). For a plural record P with all four forms and data      *)
(* {count: c}, the result is P.zero if c = 0, P.one if c = 1, P.two if     *)
(* c = 2 and otherwise P.other with its placeholders substituted.          *)
(***************************************************************************)
C3_PluralForms ==
  (Returned("formatMessageValue") /\ HasAllForms(call.message) /\ IsCountData(call.data))
    => LET c == call.data.v[1][2].v
       IN call.ret = IF c \in {0, 1, 2}
                     THEN Get(call.message, FormKey(c))
                     ELSE StrV(SubstituteTokens(Get(call.message, kOther).v, call.data, 1))

(***************************************************************************)
(* C4 (as stated). For count 0, 1 or 2 the formatter uses the zero, one or *)
(* two form whenever the record has it, and the other form only when it    *)
(* has not; for any other count it uses other.                             *)
(***************************************************************************)
C4_FormFallThrough ==
  (Returned("formatMessageValue") /\ isPluralizationObject(call.message)
   /\ call.ret.t = "string")
    => LET c == ExtractCount(call.data)
           key == IF HasKey(call.message, FormKey(c)) THEN FormKey(c) ELSE kOther
       IN (HasKey(call.message, key) /\ IsString(Get(call.message, key)))
            => call.ret = replaceData(Get(call.message, key).v, call.data)

(***************************************************************************)
(* C5 (as stated). The count that selects the plural form is data.count    *)
(* when data has a numeric key count, otherwise the value of the first key *)
(* of data when that value is a number, otherwise 0.                       *)
(***************************************************************************)
C5_CountExtraction ==
  (Returned("formatMessageValue") /\ isPluralizationObject(call.message))
    => call.ret = FormatWithCount(Self, call.message, DescribedCount(call.data), call.data)

(***************************************************************************)
(* C6 (as stated). With data given, a {key} token of the template whose    *)
(* key is not in data is replaced with the empty string: the token is gone *)
(* from the result.                                                        *)
(***************************************************************************)
C6_MissingKeyEmptied ==
  (Returned("replaceData") /\ call.data.t = "data" /\ call.ret.t = "string")
    => \A key \in ReplaceKeys :
         (~DataHas(call.data, key) /\ Occurrences(Pattern(key), call.message.v) > 0)
           => Occurrences(Pattern(key), call.ret.v) = 0

(***************************************************************************)
(* C6 (amended). With data given, a {key} token of the template whose key  *)
(* is not in data is left in place: the result holds the token at least as *)
(* often as the template does.                                             *)
(***************************************************************************)
C6_MissingKeyKept ==
  (Returned("replaceData") /\ call.data.t = "data" /\ call.ret.t = "string")
    => \A key \in ReplaceKeys :
         ~DataHas(call.data, key)
           => Occurrences(Pattern(key), call.ret.v)
                >= Occurrences(Pattern(key), call.message.v)

C6_Witness ==
  /\ Returned("replaceData") /\ call.data.t = "data"
  /\ Len(call.data.v) = 1 /\ call.data.v[1] = <<(<<"b">>), NumV(10)>>
  /\ call.message.v = <<"a", "{", "a", "}">>
  /\ call.ret = StrV(<<"a", "{", "a", "}">>)

(***************************************************************************)
(* C7 (as stated). replaceData replaces every {key} token whose key is in  *)
(* data, with '' when data[key] is null or undefined and with              *)
(* String(data[key]) otherwise, and leaves all other text unchanged.       *)
(***************************************************************************)
C7_SubstituteAll ==
  (Returned("replaceData") /\ call.data.t = "data" /\ call.ret.t = "string")
    => call.ret.v = SubstituteTokens(call.message.v, call.data, 1)

(***************************************************************************)
(* C8 (as stated). t / formatMessage never throws: every call returns a    *)
(* string.                                                                 *)
(***************************************************************************)
C8_NeverThrows == Returned("t") => call.ret.t = "string"

(***************************************************************************)
(* C9. changeCurrentLocale(code) with code not in supportedLocales changes *)
(* nothing: the configuration and the locale table stay as they are, and   *)
(* the call returns without throwing.                                      *)
(***************************************************************************)
C9_UnsupportedLocaleNoOp ==
  [][(call'.op = "changeCurrentLocale" /\ ~Includes(supportedLocales, call'.locale))
       => (UNCHANGED <<config, localizations>> /\ call'.ret.t # "throw")]_vars

C9_Witness ==
  /\ Returned("changeCurrentLocale")
  /\ call.locale = "xx" /\ ~Includes(supportedLocales, "xx")
  /\ currentLocale = "ar"

(***************************************************************************)
(* C10 (as stated). changeCurrentLocale reports acceptance: what it        *)
(* returns for a code that is not supported differs from what it returns   *)
(* for a supported code.                                                   *)
(***************************************************************************)
C10_RejectionIndicator ==
  (Returned("changeCurrentLocale") /\ ~Includes(supportedLocales, call.locale))
    => \A locale \in LocaleCodes :
         Includes(supportedLocales, locale)
           => changeCurrentLocale(Self, locale).ret # call.ret

(***************************************************************************)
(* C10 (amended). changeCurrentLocale returns the instance itself, for a   *)
(* supported code and for an unsupported one alike.                        *)
(***************************************************************************)
C10_ReturnsInstance == Returned("changeCurrentLocale") => call.ret = This

C10_Witness ==
  /\ Returned("changeCurrentLocale")
  /\ ~Includes(supportedLocales, call.locale)
  /\ call.ret = This
  /\ currentLocale = "en"

(***************************************************************************)
(* Helpers of the properties of the instance.                              *)
(***************************************************************************)
\* the merged tree of a locale (undefined when it has none)
MergedOf(locale) == Loc(localizations, locale, Merged)

\* every supported locale has a merged tree
AllMerged ==
  \A i \in 1..Len(supportedLocales) : IsObject(MergedOf(supportedLocales[i]))

\* tree stores a value for the identifier: under the identifier itself as a
\* root key or, for an identifier whose first segment is a file name and no
\* key of the tree, under the rest of the identifier as a root key
IsStoredIn(tree, identifier) ==
  /\ IsObject(tree)
  /\ \/ HasKey(tree, identifier)
     \/ /\ IncludesDot(identifier)
        /\ ~HasKey(tree, splitIdentifier(identifier).fileName)
        /\ HasKey(tree, AfterNamespace(identifier))

\* the value tree stores for the identifier
StoredValue(tree, identifier) ==
  IF HasKey(tree, identifier) THEN Get(tree, identifier)
  ELSE Get(tree, AfterNamespace(identifier))

(***************************************************************************)
(* C11 (as stated). changeCurrentLocale(l) with l supported makes l the    *)
(* current locale, and while every supported locale has a preloaded merged *)
(* tree, t(id) returns the value the current locale's merged tree stores   *)
(* for id (formatted with the data of the call).                           *)
(***************************************************************************)
C11_LocaleSwitch ==
  /\ [][(call'.op = "changeCurrentLocale" /\ Includes(supportedLocales, call'.locale))
          => currentLocale' = call'.locale]_vars
  /\ []((Returned("t") /\ preloadLocalizations /\ AllMerged
         /\ IsStoredIn(MergedOf(currentLocale), call.identifier))
          => call.ret = formatMessageValue(Self,
                          StoredValue(MergedOf(currentLocale), call.identifier),
                          call.data))

(***************************************************************************)
(* C12. In every state textDirection is 'rtl' exactly when currentLocale   *)
(* is one of the configured rtlLocales and 'ltr' otherwise,                *)
(* isCurrentLocaleRTL is that membership and isCurrentLocaleLTR its        *)
(* negation; this holds in the state changeCurrentLocale returns in.       *)
(***************************************************************************)
C12_TextDirection ==
  LET member == \E i \in 1..Len(rtlLocales) : rtlLocales[i] = currentLocale
  IN /\ textDirection(Self) = "rtl" <=> member
     /\ textDirection(Self) = "ltr" <=> ~member
     /\ isCurrentLocaleRTL(Self) <=> member
     /\ isCurrentLocaleLTR(Self) <=> ~member

C12_Witness ==
  /\ Returned("changeCurrentLocale") /\ call.locale = "ar"
  /\ currentLocale = "ar" /\ rtlLocales = <<"ar">>
  /\ textDirection(Self) = "rtl" /\ ~isCurrentLocaleLTR(Self)

\* the first segment of an identifier
FirstSegment(identifier) == splitIdentifier(identifier).fileName

\* tree stores nothing for the identifier: neither the identifier, nor the
\* identifier without its first segment, nor the first segment of either is
\* a key at its root
IsAbsentFrom(tree, identifier) ==
  /\ IsObject(tree)
  /\ \A key \in {identifier, AfterNamespace(identifier)} :
       ~HasKey(tree, key) /\ ~HasKey(tree, FirstSegment(key))

\* the tree of the file an identifier names, for a locale
FileTreeOf(locale, identifier) == Loc(localizations, locale, FirstSegment(identifier))

(***************************************************************************)
(* C13 (as stated). Per-key fallback: when the trees of the current locale *)
(* store nothing for an identifier and the trees of the fallback locale    *)
(* store a value for it, t(identifier) returns the fallback locale's value *)
(* (formatted), both with merged trees and with per-file trees.            *)
(***************************************************************************)
C13_PerKeyFallback ==
  (Returned("t") /\ currentLocale # fallbackLocale)
    => /\ (/\ preloadLocalizations
           /\ IsAbsentFrom(MergedOf(currentLocale), call.identifier)
           /\ IsStoredIn(MergedOf(fallbackLocale), call.identifier))
            => call.ret = formatMessageValue(Self,
                            StoredValue(MergedOf(fallbackLocale), call.identifier),
                            call.data)
       /\ (/\ ~IsObject(MergedOf(currentLocale))
           /\ ~IsObject(MergedOf(fallbackLocale))
           /\ IsAbsentFrom(FileTreeOf(currentLocale, call.identifier),
                           AfterNamespace(call.identifier))
           /\ IsObject(FileTreeOf(fallbackLocale, call.identifier))
           /\ HasKey(FileTreeOf(fallbackLocale, call.identifier),
                     AfterNamespace(call.identifier)))
            => call.ret = formatMessageValue(Self,
                            Get(FileTreeOf(fallbackLocale, call.identifier),
                                AfterNamespace(call.identifier)),
                            call.data)

\* the value the current locale stores for the identifier, in its merged
\* tree when the instance preloads and has one, in the tree of the file the
\* identifier names when there are no merged trees (undefined when neither
\* applies or nothing is stored)
CurrentValue(identifier) ==
  IF preloadLocalizations /\ IsObject(MergedOf(currentLocale))
  THEN IF IsStoredIn(MergedOf(currentLocale), identifier)
       THEN StoredValue(MergedOf(currentLocale), identifier) ELSE Undefined
  ELSE IF /\ ~IsObject(MergedOf(currentLocale)) /\ ~IsObject(MergedOf(fallbackLocale))
          /\ IsObject(FileTreeOf(currentLocale, identifier))
          /\ HasKey(FileTreeOf(currentLocale, identifier), AfterNamespace(identifier))
       THEN Get(FileTreeOf(currentLocale, identifier), AfterNamespace(identifier))
       ELSE Undefined

(***************************************************************************)
(* C14 (as stated). A key whose stored value is the empty string is a      *)
(* resolved value: t(identifier) returns '' and hasIdentifier(identifier)  *)
(* returns true.                                                           *)
(***************************************************************************)
C14_EmptyStringResolved ==
  /\ (Returned("t") /\ CurrentValue(call.identifier) = StrV(<<>>))
       => call.ret = StrV(<<>>)
  /\ (Returned("hasIdentifier") /\ CurrentValue(call.identifier) = StrV(<<>>))
       => call.ret = BoolV(TRUE)

\* the keys of the plural forms
FormKeys == {kZero, kOne, kTwo, kOther}

(***************************************************************************)
(* C15 (as stated). t always yields a string: when the value the lookup    *)
(* resolved is an object, the result is a string, and it is either one of  *)
(* the object's plural forms after substitution or the error fallback ('' *)
(* or the missing-identifier message); the object itself is never the      *)
(* result.                                                                 *)
(***************************************************************************)
C15_ObjectNeverReturned ==
  (Returned("t") /\ IsObject(call.raw))
    => /\ call.ret.t = "string"
       /\ \/ call.ret = ErrorFallback(Self)
          \/ \E key \in FormKeys :
               /\ HasKey(call.raw, key) /\ IsString(Get(call.raw, key))
               /\ call.ret = replaceData(Get(call.raw, key).v, call.data)

\* the form a count needs from a plural record: the form of the count when
\* the record has it, otherwise other (undefined when that is absent too)
NeededForm(message, count) ==
  IF HasKey(message, FormKey(count)) THEN Get(message, FormKey(count))
  ELSE IF HasKey(message, kOther) THEN Get(message, kOther) ELSE Undefined

\* malformed plural input: an object with none of the keys zero, one, two
\* and other, or one whose needed form is absent or not a string
IsMalformed(message, count) ==
  /\ IsObject(message)
  /\ \/ \A key \in FormKeys : ~HasKey(message, key)
     \/ ~IsString(NeededForm(message, count))

(***************************************************************************)
(* C16. Malformed plural input: when the value to format is an object with *)
(* none of the keys zero, one, two, other, or the form needed for the      *)
(* count the formatter works with (other included) is absent or not a      *)
(* string, the result is '' if showMissingIdentifierMessage is off and     *)
(* missingIdentifierMessage if it is on.                                   *)
(***************************************************************************)
C16_MalformedPlural ==
  (Returned("formatMessageValue")
   /\ IsMalformed(call.message, ExtractCount(call.data)))
    => call.ret = IF showMissingIdentifierMessage
                  THEN StrV(missingIdentifierMessage) ELSE StrV(<<>>)

C16_Witness ==
  /\ Returned("formatMessageValue")
  /\ call.message = ObjV((kZero :> ObjV(<<>>)) @@ (kOther :> StrV(<<"R">>)))
  /\ call.data = DataV(<< <<kCount, NumV(0)>> >>)
  /\ showMissingIdentifierMessage
  /\ call.ret = StrV(DefaultMissingIdentifierMessage)

\* the trees preloading reads for a locale from the file provider, in the
\* order it reads them: the JSON files of the locale's directory that parse,
\* in directory order, then the locale's file of each feature, in directory
\* order
LoadedLocaleFiles(locale) ==
  IF fs.available /\ localesDir \in DOMAIN fs.locales
     /\ locale \in DOMAIN fs.locales[localesDir]
  THEN LET Loads(entry) == entry.json /\ IsObject(entry.content)
           entries == SelectSeq(fs.locales[localesDir][locale], Loads)
       IN [i \in 1..Len(entries) |-> entries[i].content]
  ELSE <<>>
LoadedFeatureFiles(locale) ==
  IF fs.available /\ featuresDir \in DOMAIN fs.features
  THEN LET Loads(feature) == locale \in DOMAIN feature.files
                             /\ IsObject(feature.files[locale])
           features == SelectSeq(fs.features[featuresDir], Loads)
       IN [i \in 1..Len(features) |-> features[i].files[locale]]
  ELSE <<>>
LoadOrder(locale) == LoadedLocaleFiles(locale) \o LoadedFeatureFiles(locale)

\* the value of a key in the last of the trees that defines it
LastValue(trees, key) ==
  LET defining == {i \in 1..Len(trees) : HasKey(trees[i], key)}
      last == CHOOSE i \in defining : \A j \in defining : j <= i
  IN Get(trees[last], key)

(***************************************************************************)
(* C17. After preloading, the merged tree of each supported locale holds,  *)
(* for every key that a loaded file of the locale defines, the value of    *)
(* the file loaded last among those that define it; feature files are      *)
(* loaded after all files of the locales directory, so their values win.   *)
(***************************************************************************)
C17_LastLoadWins ==
  (preloadLocalizations /\ fs.available)
    => \A i \in 1..Len(supportedLocales) :
         LET locale == supportedLocales[i]
             trees == LoadOrder(locale)
         IN \A j \in 1..Len(trees) : \A key \in DOMAIN trees[j].v :
              /\ IsObject(MergedOf(locale))
              /\ HasKey(MergedOf(locale), key)
              /\ Get(MergedOf(locale), key) = LastValue(trees, key)

C17_Witness ==
  /\ preloadLocalizations /\ fs.available
  /\ Len(LoadedLocaleFiles("en")) = 2 /\ Len(LoadedFeatureFiles("en")) = 1
  /\ Get(LoadedLocaleFiles("en")[1], sH) = StrV(<<"H", "i">>)
  /\ Get(LoadedLocaleFiles("en")[2], sH) = StrV(<<"H", "c">>)
  /\ Get(MergedOf("en"), sH) = StrV(<<"f", "h">>)
  /\ Get(MergedOf("en"), sS) = StrV(<<"S">>)

\* the source tree of a namespace for a locale: the parsed document of the
\* file of that name in the locale's directory, or of the locale's file of
\* the feature of that name (undefined when there is none)
SourceTree(locale, name) ==
  LET file == LoadLocaleFile(fs, localesDir, locale, name)
  IN IF IsObject(file) THEN file ELSE LoadFeatureFile(fs, featuresDir, name, locale)

(***************************************************************************)
(* C18 (as stated). Round trip: for every namespace file of the current    *)
(* locale and every key of its source tree whose value is a string,        *)
(* t(namespace.key) without data returns exactly that string.              *)
(***************************************************************************)
C18_RoundTrip ==
  (Returned("t") /\ call.data = Undefined /\ IncludesDot(call.identifier))
    => LET tree == SourceTree(currentLocale, FirstSegment(call.identifier))
           key == AfterNamespace(call.identifier)
       IN (IsObject(tree) /\ HasKey(tree, key) /\ IsString(Get(tree, key)))
            => call.ret = Get(tree, key)

\* t(identifier) resolves to a stored value: it does not take the path of
\* an identifier that was not found
Resolves(identifier) == Truthy(formatMessage(Self, fs, identifier, Undefined).raw)

(***************************************************************************)
(* C19 (as stated). hasIdentifier agrees with translation:                 *)
(* hasIdentifier(identifier) returns true exactly when t(identifier)       *)
(* resolves to a stored value, in preloaded and in lazy mode, with and     *)
(* without a namespace prefix.                                             *)
(***************************************************************************)
C19_HasIdentifierAgrees ==
  Returned("hasIdentifier") => (call.ret = BoolV(TRUE) <=> Resolves(call.identifier))

Entries(table) ==
  {e \in (DOMAIN table) \X UNION {DOMAIN table[l] : l \in DOMAIN table} :
     e[2] \in DOMAIN table[e[1]]}

(***************************************************************************)
(* C21. Lookups do not change the configuration or existing data: a step   *)
(* of t or hasIdentifier leaves every configuration field and every        *)
(* existing (locale, namespace) entry of the locale table as it is; what   *)
(* it may add is one entry that was absent, for the current or the         *)
(* fallback locale, holding the tree the file provider has for it.         *)
(***************************************************************************)
C21_LookupsFrame ==
  [][(call'.op \in {"t", "hasIdentifier"})
       => /\ UNCHANGED config
          /\ Entries(localizations) \subseteq Entries(localizations')
          /\ \A e \in Entries(localizations) :
               localizations'[e[1]][e[2]] = localizations[e[1]][e[2]]
          /\ Cardinality(Entries(localizations') \ Entries(localizations)) <= 1
          /\ \A e \in Entries(localizations') \ Entries(localizations) :
               /\ e[1] \in {currentLocale, fallbackLocale}
               /\ localizations'[e[1]][e[2]] = SourceTree(e[1], e[2])]_vars

C21_Witness ==
  /\ Returned("t") /\ call.identifier = Dot(sC, sS)
  /\ ~preloadLocalizations /\ currentLocale = "ar" /\ fallbackLocale = "en"
  /\ Entries(localizations) = {<<"en", sC>>}
  /\ localizations["en"][sC] = EnC
  /\ call.ret = StrV(<<"S">>)

(***************************************************************************)
(* C22. localizeValue(file, value, data) returns id = value; for a value   *)
(* that is neither null nor undefined its title is what                    *)
(* t(file + '.' + value, data) gives (and it throws when that throws); for *)
(* null and undefined its title is '' if showMissingIdentifierMessage is   *)
(* off and missingIdentifierMessage if it is on.                           *)
(***************************************************************************)
C22_LocalizeValue ==
  Returned("localizeValue")
    => IF call.value.t \in {"null", "undefined"}
       THEN call.ret = LocalizedV(call.value,
                                  IF showMissingIdentifierMessage
                                  THEN StrV(missingIdentifierMessage) ELSE StrV(<<>>))
       ELSE LET title == formatMessage(Self, fs, Dot(call.localeFile, call.value.v),
                                       call.data).ret
            IN IF title.t = "throw" THEN call.ret = title
               ELSE call.ret = LocalizedV(call.value, title)

C22_Witness ==
  /\ Returned("localizeValue")
  /\ call.localeFile = sG /\ call.value = StrV(sW)
  /\ call.data = DataV(<< <<sN, NumV(2)>> >>)
  /\ ~preloadLocalizations /\ currentLocale = "en"
  /\ call.ret = LocalizedV(StrV(sW), StrV(<<"W", "2">>))

\* the tree of a locale findMissingKeys compares: the merged tree, or else
\* the trees of its files
TreesOf(locale) ==
  IF locale \notin DOMAIN localizations THEN {}
  ELSE IF Merged \in DOMAIN localizations[locale] THEN {localizations[locale][Merged]}
       ELSE FileDatas(localizations[locale])

\* the node the keys lead to from tree, each key taken whole; Undefined
\* when a key is absent or a pluralization record lies on the way
RECURSIVE NodeAt(_, _)
NodeAt(tree, keys) ==
  IF keys = <<>> THEN tree
  ELSE IF IsObject(tree) /\ ~isPluralizationObject(tree) /\ HasKey(tree, Head(keys))
       THEN NodeAt(tree.v[Head(keys)], Tail(keys))
       ELSE Undefined

\* the key paths of a tree: the dotted paths of its string leaves and of
\* its pluralization records
KeyPathsOf(tree) ==
  {Join(keys) : keys \in {ks \in SeqsUpTo({<<"a">>, <<"b">>, sAB}, MaxSegments) \ {<<>>} :
                            LET node == NodeAt(tree, ks)
                            IN IsString(node) \/ isPluralizationObject(node)}}

KeyPathsIn(locale) == UNION {KeyPathsOf(tree) : tree \in TreesOf(locale)}

(***************************************************************************)
(* C23. findMissingKeys returns, for each supported locale, the sorted     *)
(* list of the key paths (string leaves and pluralization records, by      *)
(* dotted path) that some supported locale's tree has and that locale's    *)
(* tree has not, and leaves out the locales that miss none.                *)
(***************************************************************************)
C23_MissingKeys ==
  Returned("findMissingKeys")
    => LET locales == {supportedLocales[i] : i \in 1..Len(supportedLocales)}
           all == UNION {KeyPathsIn(l) : l \in locales}
       IN /\ DOMAIN call.ret.v = {l \in locales : all \ KeyPathsIn(l) # {}}
          /\ \A l \in DOMAIN call.ret.v : call.ret.v[l] = Sort(all \ KeyPathsIn(l))

\* the merged tree formatMessage looks the identifier up in
LookupTree ==
  IF Truthy(MergedOf(currentLocale)) THEN MergedOf(currentLocale)
  ELSE MergedOf(fallbackLocale)

\* first segments an identifier may be given
FirstSegments == {sG, sC, sF, sE, sX}

(***************************************************************************)
(* C24. In merged mode, for an identifier with a dot: when the lookup of   *)
(* the whole identifier in the merged tree yields a value, that value is   *)
(* what t works with; otherwise the lookup is retried without the first    *)
(* segment, and every identifier with the same remainder whose own direct  *)
(* lookup fails ends with the same lookup result.                          *)
(***************************************************************************)
C24_PrefixStripping ==
  (Returned("t") /\ preloadLocalizations /\ Truthy(LookupTree)
     /\ IncludesDot(call.identifier))
    => LET direct == searchForLocalizationDirect(call.identifier, LookupTree)
           rest == AfterNamespace(call.identifier)
       IN IF direct # Undefined THEN call.raw = direct
          ELSE /\ call.raw = searchForLocalizationDirect(rest, LookupTree)
               /\ \A first \in FirstSegments :
                    searchForLocalizationDirect(Dot(first, rest), LookupTree) = Undefined
                      => formatMessage(Self, fs, Dot(first, rest), call.data).raw = call.raw

\* the segments a lookup call walks: without the file-name segment for
\* searchForLocalization, all of them for searchForLocalizationDirect
WalkedKeys ==
  IF call.op = "searchForLocalization" THEN splitIdentifier(call.identifier).keys
  ELSE Split(call.identifier)

\* the node n segments below the root, each segment a key of the object
\* before it
NodeBelow(n) ==
  LET node[i \in 0..n] ==
        IF i = 0 THEN call.localization ELSE Get(node[i - 1], WalkedKeys[i])
  IN node[n]

\* the first n - 1 segments lead through objects
ReachedBy(n) == \A i \in 0..(n - 1) : IsObject(NodeBelow(i))

(***************************************************************************)
(* C25. In the nested traversal (the path is no flat key of the tree), a   *)
(* segment that reaches a string ends the lookup with that string, also    *)
(* when segments remain; a segment that reaches undefined ends it with     *)
(* undefined.                                                              *)
(***************************************************************************)
C25_PartialMatch ==
  (/\ call.op \in {"searchForLocalization", "searchForLocalizationDirect"}
   /\ call.done
   /\ ~HasKey(call.localization, Join(WalkedKeys)))
    => \A n \in 1..Len(WalkedKeys) :
         (ReachedBy(n) /\ NodeBelow(n).t \in {"string", "undefined"})
           => call.ret = NodeBelow(n)

C25_Witness ==
  /\ Returned("searchForLocalizationDirect")
  /\ call.identifier = <<"a", ".", "b", ".", "a">>
  /\ ~HasKey(call.localization, call.identifier)
  /\ Get(call.localization, <<"a">>) = ObjV(<<"b">> :> StrV(<<"Y">>))
  /\ call.ret = StrV(<<"Y">>)

(***************************************************************************)
(* C26. When the current locale has a merged tree and a tree for the file  *)
(* name N, and the key path k is absent from the merged tree and present   *)
(* in N's tree, t('N.k') returns the formatted value N's tree has for k.   *)
(***************************************************************************)
C26_TierOrder ==
  (Returned("t") /\ IncludesDot(call.identifier))
    => LET N == splitIdentifier(call.identifier).fileName
           merged == MergedOf(currentLocale)
           tree == Loc(localizations, currentLocale, N)
       IN (/\ IsObject(merged) /\ IsObject(tree) /\ N # Merged
           /\ searchForLocalizationDirect(call.identifier, merged) = Undefined
           /\ searchForLocalizationDirect(AfterNamespace(call.identifier), merged) = Undefined
           /\ Truthy(searchForLocalization(call.identifier, tree)))
            => call.ret = formatMessageValue(Self, searchForLocalization(call.identifier, tree),
                                             call.data)

\* the tree the file provider has for locales/<locale>/<name>.json
LocaleFileOf(locale, name) ==
  IF localesDir = "" THEN Undefined ELSE LoadLocaleFile(fs, localesDir, locale, name)

(***************************************************************************)
(* C27. Without preloading, when the file provider has the file N for the  *)
(* fallback locale A and for the current locale B, B # A, t('N.k') returns *)
(* the formatted value B's file has for k, whatever was looked up (and     *)
(* cached) under A before the switch to B.                                 *)
(***************************************************************************)
C27_LazyAfterSwitch ==
  (Returned("t") /\ ~preloadLocalizations /\ currentLocale # fallbackLocale)
    => LET N == splitIdentifier(call.identifier).fileName
           ofA == LocaleFileOf(fallbackLocale, N)
           ofB == LocaleFileOf(currentLocale, N)
       IN (/\ N # <<>> /\ IsObject(ofA) /\ IsObject(ofB)
           /\ Truthy(searchForLocalization(call.identifier, ofB)))
            => call.ret = formatMessageValue(Self, searchForLocalization(call.identifier, ofB),
                                             call.data)

\* the option was given to the last configure call
Given(name) == name \in DOMAIN call.options

(***************************************************************************)
(* C28. configure(options) overwrites the configuration: an option that    *)
(* is not given takes its default (supportedLocales ['en'], currentLocale  *)
(* 'en', fallbackLocale 'en', policy off, the default message and RTL      *)
(* list, preloading on, an empty locale table), except localesDir and      *)
(* featuresDir, which keep the value they had; the locale table afterwards *)
(* is the given (or empty) table with what the preload adds to it, nothing *)
(* of the table before the call.                                           *)
(***************************************************************************)
C28_ConfigureOverwrites ==
  [][(call'.op = "configure")
       => /\ (~Given("localesDir")' => localesDir' = localesDir)
          /\ (~Given("featuresDir")' => featuresDir' = featuresDir)
          /\ (~Given("supportedLocales")' => supportedLocales' = <<"en">>)
          /\ (~Given("currentLocale")' => currentLocale' = "en")
          /\ (~Given("fallbackLocale")' => fallbackLocale' = "en")
          /\ (~Given("showMissingIdentifierMessage")' => ~showMissingIdentifierMessage')
          /\ (~Given("missingIdentifierMessage")'
                => missingIdentifierMessage' = DefaultMissingIdentifierMessage)
          /\ (~Given("rtlLocales")' => rtlLocales' = DefaultRtlLocales)
          /\ (~Given("preloadLocalizations")' => preloadLocalizations')
          /\ \A name \in DOMAIN call'.options \ {"localizations"} :
               Self'[name] = call'.options[name]
          /\ LET given == IF Given("localizations")' THEN call'.options.localizations
                          ELSE <<>>
             IN localizations' =
                  IF preloadLocalizations'
                  THEN preloadAllLocalizations([Self' EXCEPT !.localizations = given], fs)
                  ELSE given]_vars

C28_Witness ==
  /\ call.op = "configure"
  /\ call.options = [supportedLocales |-> <<"en", "ar">>]
  /\ localesDir = "/locales" /\ featuresDir = "/features"
  /\ currentLocale = "en" /\ ~showMissingIdentifierMessage
  /\ preloadLocalizations
  /\ IsObject(MergedOf("ar"))

\* the orders Object.keys can list the entries of pairs in
KeyOrdersOf(pairs) ==
  {q \in [1..Len(pairs) -> {pairs[i] : i \in 1..Len(pairs)}] :
     /\ \A i \in 1..Len(pairs) : \E j \in 1..Len(pairs) : q[j] = pairs[i]
     /\ IsKeyOrder(q)}

(***************************************************************************)
(* C29. replaceData gives the same result for every order in which the     *)
(* keys of data are iterated: text inserted for one key is not scanned for *)
(* the placeholders of the other keys.                                     *)
(***************************************************************************)
C29_OrderIndependent ==
  (Returned("replaceData") /\ call.data.t = "data")
    => \A q \in KeyOrdersOf(call.data.v) :
         replaceData(call.message.v, DataV(q)) = call.ret

(***************************************************************************)
(* C30 (as stated). In every state reached through the constructor,        *)
(* configure and changeCurrentLocale, currentLocale is one of              *)
(* supportedLocales.                                                       *)
(***************************************************************************)
C30_CurrentLocaleSupported == Includes(supportedLocales, currentLocale)

(***************************************************************************)
(* C30 (amended). Only configure and changeCurrentLocale change            *)
(* currentLocale: changeCurrentLocale sets it to its argument and only     *)
(* when that is one of supportedLocales; configure (and the constructor)   *)
(* sets it to the currentLocale option, 'en' when there is none, whether   *)
(* or not that is one of supportedLocales.                                 *)
(***************************************************************************)
C30_SetterValidates ==
  [][/\ (currentLocale' # currentLocale)
          => \/ call'.op = "configure"
             \/ /\ call'.op = "changeCurrentLocale"
                /\ currentLocale' = call'.locale
                /\ Includes(supportedLocales', currentLocale')
     /\ (call'.op = "configure")
          => currentLocale' = Opt(call'.options, "currentLocale", "en")]_vars

C30_Witness ==
  /\ call.op = "changeCurrentLocale"
  /\ call.locale = "ar"
  /\ currentLocale = "ar"
  /\ Includes(supportedLocales, "ar")
  /\ rtlLocales = <<"ar">>
  /\ localizations # InMemory

====
